---- MODULE Spec2Model ----
(***************************************************************************)
(* Membership-event correlation engine of the raid-prevention bot          *)
(* (src/bot.py): the sliding-window raid detector, the invite-delta        *)
(* inviter attribution and the banned-inviter alt flagging.                *)
(*                                                                         *)
(* The bot runs on one asyncio event loop.  Every gateway event starts a   *)
(* handler task; a handler runs without interruption from one `await` of   *)
(* an outbound call to the next, so an action of this module is one such   *)
(* uninterrupted block: the arrival of an event (the handler's code up to  *)
(* its first outbound call) or the return of an outbound call (the code    *)
(* from there to the next outbound call or to the handler's end).          *)
(***************************************************************************)
EXTENDS Integers, Sequences, FiniteSets, TLC

(***************************************************************************)
(* Configuration.  The three settings are read from the environment        *)
(* (int(os.getenv(...))); the model instantiates them with small values.   *)
(***************************************************************************)
RAID_WINDOW_SECONDS == 1
RAID_THRESHOLD_JOINS == 1
JOIN_WARNING_MAX_CHANNELS == 1
\* join_log's deque(maxlen=2000)
JoinLogMaxLen == 2000

(***************************************************************************)
(* Bounds of the model.                                                    *)
(***************************************************************************)
\* the clock runs from 0 to MaxTime
MaxTime == 2
\* handler tasks that can be in flight at once
MaxTasks == 2
\* an invite is used at most MaxUses times
MaxUses == 2

(***************************************************************************)
(* The world the bot lives in.                                             *)
(***************************************************************************)
Guilds == {1, 2}
Members == {1, 2, 3}
\* Python's None for a user id; `if used_inviter_id:` reads None and 0 alike
NoUser == 0
\* Python's None for invite.uses
NoUses == -1
\* no invite code: a join by vanity URL or by an invite deleted at once
NoCode == "none"
\* invite.inviter.id of an invite code, NoUser when invite.inviter is None
InviterOf(code) == CASE code = "a" -> 11
                     [] code = "b" -> 12
                     [] OTHER -> NoUser
\* len(guild.text_channels), every channel writable by the bot
NumChannels(g) == IF g = 1 THEN 2 ELSE 1
\* guild.owner is cached (not None)
HasOwner(g) == g = 1

TaskIds == 1..MaxTasks

VARIABLES
    now,              \* now_utc(), in seconds
    present,          \* guild -> members in the guild's member cache (guild.get_member)
    live,             \* guild -> the platform's invites: code -> uses
    join_log,         \* guild -> sequence of <<timestamp, member id>>
    invite_cache,     \* guild -> code -> uses, the stored snapshot
    member_inviter,   \* guild -> member -> inviter id or NoUser
    inviter_index,    \* inviter id -> set of member ids (one dict for all guilds)
    flagged_accounts, \* guild -> member -> reason
    banned_inviters,  \* guild -> set of user ids
    tasks,            \* the handler tasks in flight and their local variables
    ev,               \* what the last step did (the commands it issued, its decisions)
    fresh,            \* history: guild -> entries at the back of join_log recorded after the last trigger
    hist,             \* history: guild -> timestamps of the joins recorded since join_log was last cleared
    last_good         \* history: guild -> the invites (code -> uses) that the last successful fetch returned

vars == <<now, present, live, join_log, invite_cache, member_inviter, inviter_index,
          flagged_accounts, banned_inviters, tasks, ev, fresh, hist, last_good>>

(***************************************************************************)
(* Python containers.                                                      *)
(***************************************************************************)
EmptyDict == [k \in {} |-> 0]
\* d[k] = v
DictSet(d, k, v) == [x \in (DOMAIN d) \cup {k} |-> IF x = k THEN v ELSE d[x]]
\* d.get(k, default)
DictGet(d, k, default) == IF k \in DOMAIN d THEN d[k] ELSE default
Range(s) == {s[i] : i \in DOMAIN s}
\* the orders in which a set can be iterated
Orderings(S) == {f \in [1..Cardinality(S) -> S] : \A i, j \in 1..Cardinality(S) : i # j => f[i] # f[j]}
Min(a, b) == IF a < b THEN a ELSE b

\* (variant: appendleft for append)
DequeAppendLeft(q, x) == IF Len(q) >= JoinLogMaxLen THEN <<x>> \o SubSeq(q, 1, Len(q) - 1) ELSE <<x>> \o q

\* deque(maxlen=2000).append: a full deque drops its oldest entry
DequeAppend(q, x) == IF Len(q) >= JoinLogMaxLen THEN Append(Tail(q), x) ELSE Append(q, x)

(***************************************************************************)
(* Handler tasks.                                                          *)
(***************************************************************************)
IdleTask == [kind |-> "idle", pc |-> "idle", g |-> 0, who |-> 0,
             to_kick |-> <<>>, ki |-> 0, kicked |-> {}, skipped |-> {},
             before |-> EmptyDict, banned_id |-> NoUser,
             ch |-> 0, sent |-> 0, order |-> <<>>, size0 |-> 0, dup |-> FALSE,
             older |-> {}, overtaken |-> FALSE, told |-> {}]

\* the tasks that await `fetch_guild_invites(guild)` for guild g
Fetching(g) == {u \in TaskIds : tasks[u].pc = "fetch" /\ tasks[u].g = g}

\* History of the order of the fetches.  A task that starts a fetch notes in
\* `older` the tasks whose fetch for the same guild is still under way.  When
\* the fetch of task t returns and its result is stored, a task u that still
\* waits for its fetch is overtaken if its fetch was issued before t's (u is in
\* t's `older`), and is not if it was issued after t's.
Overtake(u, t) ==
    IF u # t /\ tasks[u].pc = "fetch" /\ tasks[u].g = tasks[t].g
    THEN [tasks[u] EXCEPT !.overtaken = u \in tasks[t].older, !.older = @ \ {t}]
    ELSE tasks[u]

\* the slot a new handler task takes
FreeSlots == {t \in TaskIds : tasks[t].kind = "idle"}
NewSlot == CHOOSE t \in FreeSlots : \A u \in FreeSlots : t <= u

NoEvent == [op |-> "none", kind |-> "none", t |-> 0, g |-> 0, who |-> 0, cmd |-> "none", target |-> 0,
            trig |-> FALSE, fin |-> FALSE, fresh |-> 0,
            cohort |-> {}, kicked |-> {}, skipped |-> {},
            resolved |-> NoUser, done |-> FALSE, dup |-> FALSE, err |-> FALSE,
            ok |-> TRUE, dropped |-> {}, stale |-> FALSE, about |-> 0, told |-> {},
            escaped |-> FALSE, decreased |-> {}]

(***************************************************************************)
(* Exceptions.  A call that raises does so inside the try blocks that      *)
(* enclose it; the exception goes to the innermost `except Exception` that *)
(* the code has there, and leaves the handler when there is none.  The     *)
(* places where a handler can raise:                                       *)
(*   "kick"   await m.kick(...)                                            *)
(*   "fetch"  await guild.invites()                                        *)
(*   "send"   await ch.send(...)                                           *)
(*   "dm"     a direct message, bot.fetch_user                             *)
(*   "sweep"  for mid in invited (RuntimeError: Set changed size during    *)
(*            iteration)                                                   *)
(***************************************************************************)
\* the try blocks around the place `site` in a handler of kind `kind`,
\* innermost first, each named by what its `except Exception` belongs to
Enclosing(kind, site) ==
    CASE site = "kick" -> <<"kick_loop">>
      [] site = "fetch" /\ kind = "join" -> <<"fetch_guild_invites", "detect">>
      [] site = "fetch" -> <<"fetch_guild_invites">>
      [] site = "send" /\ kind = "mark" -> <<"channel_loop", "mark_alert">>
      [] site = "send" -> <<"channel_loop", "join_broadcast">>
      [] site = "dm" /\ kind = "ban" -> <<"dm", "on_member_ban">>
      [] site = "dm" /\ kind = "mark" -> <<"dm", "mark_alert">>
      [] site = "dm" -> <<"dm">>
      [] site = "sweep" -> <<"on_member_ban">>
      [] OTHER -> <<>>

\* (variant: on_member_ban without its outer try/except)
ExceptClausesAtCalls ==
    {"kick_loop", "fetch_guild_invites", "detect", "channel_loop", "join_broadcast", "dm", "mark_alert"}

\* the `except Exception` clauses of the code
ExceptClauses ==
    {"kick_loop", "fetch_guild_invites", "detect", "channel_loop", "join_broadcast", "dm",
     "on_member_ban", "mark_alert"}

\* where an exception raised at `site` lands: the innermost enclosing clause,
\* "out" (of the handler) when there is none
Landing(kind, site) ==
    LET e == Enclosing(kind, site)
        I == {i \in DOMAIN e : e[i] \in ExceptClauses}
    IN IF I = {} THEN "out" ELSE e[CHOOSE i \in I : \A j \in I : i <= j]

\* An exception leaves the handler of task t: the coroutine ends there,
\* nothing after the place that raised is run.  (`ok`: the call that has just
\* returned did not raise; `err`: the iteration of the ban sweep raised.)
Raised(t, op, ok, err) ==
    /\ tasks' = [u \in TaskIds |-> IF u = t THEN IdleTask ELSE [tasks[u] EXCEPT !.older = @ \ {t}]]
    /\ ev' = [NoEvent EXCEPT !.op = op, !.kind = tasks[t].kind, !.t = t, !.g = tasks[t].g,
                  !.who = tasks[t].who, !.ok = ok, !.err = err, !.escaped = TRUE]
    /\ UNCHANGED <<last_good, now, present, live, join_log, invite_cache, member_inviter,
                   inviter_index, flagged_accounts, banned_inviters, fresh, hist>>

(***************************************************************************)
(* Initial state: the module's globals right after import, all empty.      *)
(* The platform's side (members, invites) is given by the specification.   *)
(***************************************************************************)
InitWith(invites) ==
    /\ now = 0
    /\ present = [g \in Guilds |-> {}]
    /\ live = invites
    /\ join_log = [g \in Guilds |-> <<>>]
    /\ invite_cache = [g \in Guilds |-> EmptyDict]
    /\ member_inviter = [g \in Guilds |-> EmptyDict]
    /\ inviter_index = EmptyDict
    /\ flagged_accounts = [g \in Guilds |-> EmptyDict]
    /\ banned_inviters = [g \in Guilds |-> {}]
    /\ tasks = [t \in TaskIds |-> IdleTask]
    /\ ev = NoEvent
    /\ fresh = [g \in Guilds |-> 0]
    /\ hist = [g \in Guilds |-> <<>>]
    /\ last_good = [g \in Guilds |-> EmptyDict]

(***************************************************************************)
(* The platform: time passes, members leave.                               *)
(***************************************************************************)
Tick ==
    /\ now < MaxTime
    /\ now' = now + 1
    /\ ev' = NoEvent
    /\ UNCHANGED <<last_good, present, live, join_log, invite_cache, member_inviter, inviter_index,
                   flagged_accounts, banned_inviters, tasks, fresh, hist>>

\* the bot has no on_member_remove handler: only the member cache changes
MemberLeave(g, m) ==
    /\ m \in present[g]
    /\ present' = [present EXCEPT ![g] = @ \ {m}]
    /\ ev' = NoEvent
    /\ UNCHANGED <<last_good, now, live, join_log, invite_cache, member_inviter, inviter_index,
                   flagged_accounts, banned_inviters, tasks, fresh, hist>>

(***************************************************************************)
(* record_join_and_enforce                                                 *)
(***************************************************************************)
\* (variant: the pruning loop with >= for >, dropping an entry exactly one window old)
RECURSIVE PruneInclusive(_, _)
PruneInclusive(log, ts) ==
    IF log # <<>> /\ ts - log[1][1] >= RAID_WINDOW_SECONDS
    THEN PruneInclusive(Tail(log), ts)
    ELSE log

\* while join_log[g] and (ts - join_log[g][0][0] > window): join_log[g].popleft()
RECURSIVE Prune(_, _)
Prune(log, ts) ==
    IF log # <<>> /\ ts - log[1][1] > RAID_WINDOW_SECONDS
    THEN Prune(Tail(log), ts)
    ELSE log

\* join_log[g].append((ts, member.id)), then the pruning loop
RecordJoin(log, ts, mid) == Prune(DequeAppend(log, <<ts, mid>>), ts)

\* (variant: the threshold is one more)
ThresholdOneMore(log) == Len(log) > RAID_THRESHOLD_JOINS + 1

\* (variant: >= for >)
ThresholdReached(log) == Len(log) >= RAID_THRESHOLD_JOINS

\* if len(join_log[g]) > RAID_THRESHOLD_JOINS
ThresholdExceeded(log) == Len(log) > RAID_THRESHOLD_JOINS

\* (ts - t) <= window
InWindow(ts, t) == ts - t <= RAID_WINDOW_SECONDS

\* to_kick = [mid for (t, mid) in join_log[g] if (ts - t) <= window]
RECURSIVE ToKick(_, _)
ToKick(log, ts) ==
    IF log = <<>> THEN <<>>
    ELSE IF InWindow(ts, log[1][1])
         THEN <<log[1][2]>> \o ToKick(Tail(log), ts)
         ELSE ToKick(Tail(log), ts)

\* (variant: the loop ends at the first member that is not in the member cache)
RECURSIVE KickScanBreak(_, _, _, _)
KickScanBreak(to_kick, i, cache, skipped) ==
    IF i > Len(to_kick) THEN [at |-> 0, skipped |-> skipped]
    ELSE IF to_kick[i] \in cache THEN [at |-> i, skipped |-> skipped]
    ELSE [at |-> 0, skipped |-> skipped \cup {to_kick[i]}]

\* for uid in to_kick: m = guild.get_member(uid); if m: await m.kick(...)
\* From position i on: the position of the next member that is in the member
\* cache (0 when the loop ends), and the members passed over on the way.
RECURSIVE KickScan(_, _, _, _)
KickScan(to_kick, i, cache, skipped) ==
    IF i > Len(to_kick) THEN [at |-> 0, skipped |-> skipped]
    ELSE IF to_kick[i] \in cache THEN [at |-> i, skipped |-> skipped]
    ELSE KickScan(to_kick, i + 1, cache, skipped \cup {to_kick[i]})

\* (variant: a kick that raised ends the loop)
KickResumeAbort(to_kick, i, ok) == IF ok THEN i + 1 ELSE Len(to_kick) + 1

\* try: await m.kick(...) except Exception as e: print(...)
\* the position in to_kick at which the loop goes on after the kick of to_kick[i]
KickResume(to_kick, i, ok) == i + 1

\* the member ids of a join log
MemberIds(log) == {log[i][2] : i \in DOMAIN log}

\* (variant: the log is not cleared)
KeepJoinLog(log) == log

\* join_log[guild.id].clear()
ClearJoinLog(log) == <<>>

\* detect_used_invite_and_record_inviter up to its await:
\* before = invite_cache.get(guild.id, {}).copy(); await fetch_guild_invites(guild)
BeginDetect(task, cache) ==
    [task EXCEPT !.pc = "fetch", !.before = cache,
                 !.to_kick = <<>>, !.ki = 0, !.kicked = {}, !.skipped = {},
                 !.older = Fetching(task.g), !.overtaken = FALSE]

(***************************************************************************)
(* on_member_join, from the event to the first outbound call.  `via` is    *)
(* the invite the member used: the platform counts the use and puts the    *)
(* member into the member cache before the handler runs.                   *)
(***************************************************************************)
JoinArrive(g, m, via) ==
    /\ FreeSlots # {}
    /\ m \notin present[g]
    /\ via = NoCode \/ (via \in DOMAIN live[g] /\ live[g][via] < MaxUses)
    /\ LET t == NewSlot
           cache == present[g] \cup {m}
           ts == now
           log == RecordJoin(join_log[g], ts, m)
           trig == ThresholdExceeded(log)
           to_kick == IF trig THEN ToKick(log, ts) ELSE <<>>
           scan == KickScan(to_kick, 1, cache, {})
           fin == trig /\ scan.at = 0
           h == Append(hist[g], ts)
           f == Min(fresh[g] + 1, Len(log))
           task == [IdleTask EXCEPT !.kind = "join", !.g = g, !.who = m]
       IN
       /\ present' = [present EXCEPT ![g] = cache]
       /\ live' = IF via = NoCode THEN live ELSE [live EXCEPT ![g][via] = @ + 1]
       \* join_log[g].clear() once the kick loop is over
       /\ join_log' = [join_log EXCEPT ![g] = IF fin THEN ClearJoinLog(log) ELSE log]
       /\ hist' = [hist EXCEPT ![g] = IF fin THEN <<>> ELSE h]
       /\ fresh' = [fresh EXCEPT ![g] = IF trig THEN 0 ELSE f]
       /\ tasks' = [tasks EXCEPT ![t] =
                      IF trig /\ ~fin
                      THEN [task EXCEPT !.pc = "kick", !.to_kick = to_kick, !.ki = scan.at,
                                        !.kicked = {to_kick[scan.at]}, !.skipped = scan.skipped]
                      ELSE BeginDetect(task, invite_cache[g])]
       /\ ev' = [NoEvent EXCEPT !.op = "Join", !.kind = "join", !.t = t, !.g = g, !.who = m,
                     !.cmd = IF trig /\ ~fin THEN "KickMember" ELSE "FetchInvites",
                     !.target = IF trig /\ ~fin THEN to_kick[scan.at] ELSE g,
                     !.trig = trig, !.fin = fin,
                     !.fresh = f,
                     !.cohort = IF trig THEN MemberIds(log) ELSE {},
                     !.kicked = {},
                     !.skipped = IF fin THEN scan.skipped ELSE {}]
    /\ UNCHANGED <<last_good, now, invite_cache, member_inviter, inviter_index,
                   flagged_accounts, banned_inviters>>

(***************************************************************************)
(* on_member_join: `await m.kick(...)` returns (ok) or raises (~ok, caught *)
(* and printed); the loop goes on to the next cached member, and after the *)
(* last one the log is cleared and the inviter detection starts.           *)
(***************************************************************************)
KickReturn(t, ok) ==
    /\ tasks[t].pc = "kick"
    /\ IF ~ok /\ Landing("join", "kick") = "out"
       THEN Raised(t, "KickReturn", ok, FALSE)
       ELSE
       /\ LET task == tasks[t]
              g == task.g
              uid == task.to_kick[task.ki]
              cache == IF ok THEN present[g] \ {uid} ELSE present[g]
              scan == KickScan(task.to_kick, KickResume(task.to_kick, task.ki, ok), cache, task.skipped)
              fin == scan.at = 0
          IN
          /\ present' = [present EXCEPT ![g] = cache]
          /\ join_log' = IF fin THEN [join_log EXCEPT ![g] = ClearJoinLog(@)] ELSE join_log
          /\ hist' = IF fin THEN [hist EXCEPT ![g] = <<>>] ELSE hist
          /\ fresh' = IF fin THEN [fresh EXCEPT ![g] = 0] ELSE fresh
          /\ tasks' = [tasks EXCEPT ![t] =
                         IF fin
                         THEN BeginDetect(task, invite_cache[g])
                         ELSE [task EXCEPT !.ki = scan.at, !.skipped = scan.skipped,
                                           !.kicked = @ \cup {task.to_kick[scan.at]}]]
          /\ ev' = [NoEvent EXCEPT !.op = "KickReturn", !.kind = "join", !.t = t, !.g = g, !.who = task.who,
                        !.cmd = IF fin THEN "FetchInvites" ELSE "KickMember",
                        !.target = IF fin THEN g ELSE task.to_kick[scan.at],
                        !.fin = fin, !.ok = ok,
                        !.cohort = IF fin THEN Range(task.to_kick) ELSE {},
                        !.kicked = IF fin THEN task.kicked ELSE {},
                        !.skipped = IF fin THEN scan.skipped ELSE {}]
       /\ UNCHANGED <<last_good, now, live, invite_cache, member_inviter, inviter_index,
                      flagged_accounts, banned_inviters>>

(***************************************************************************)
(* fetch_guild_invites, cache_invites_for_guild,                           *)
(* detect_used_invite_and_record_inviter                                   *)
(***************************************************************************)
\* What `await fetch_guild_invites(guild)` can return for the platform's
\* invites `inv`: [] when guild.invites() raised (`raised`: one of its except
\* clauses ran), the invites in any order when it did not.
FetchOutcomes(inv) ==
    {[raised |-> TRUE, invites |-> <<>>]} \cup
    {[raised |-> FALSE,
      invites |-> [i \in 1..Cardinality(DOMAIN inv) |->
                     [code |-> o[i], uses |-> inv[o[i]], inviter |-> InviterOf(o[i])]]] :
     o \in Orderings(DOMAIN inv)}

\* inv.uses or 0
UsesOrZero(uses) == IF uses = NoUses THEN 0 ELSE uses

\* (variant: # for >, a count that went down counts as a use)
Changed(before, inv) == UsesOrZero(inv.uses) # DictGet(before, inv.code, 0)

\* (variant: >= for >)
IncreasedOrEqual(before, inv) == UsesOrZero(inv.uses) >= DictGet(before, inv.code, 0)

\* prev = before.get(code, 0); if uses_after > prev
Increased(before, inv) == UsesOrZero(inv.uses) > DictGet(before, inv.code, 0)

\* for code, (uses_after, inv_obj) in after_map.items(): ... break
\* the position of the first invite whose use count rose, 0 when there is none
RECURSIVE FirstIncreased(_, _, _)
FirstIncreased(before, invites_now, i) ==
    IF i > Len(invites_now) THEN 0
    ELSE IF Increased(before, invites_now[i]) THEN i
    ELSE FirstIncreased(before, invites_now, i + 1)

\* used_inviter_id = inv_obj.inviter.id if inv_obj.inviter else None
UsedInviter(before, invites_now) ==
    LET i == FirstIncreased(before, invites_now, 1)
    IN IF i = 0 THEN NoUser ELSE invites_now[i].inviter

\* (variant: only the invites that have been used are stored)
AfterCacheUsedOnly(invites_now) ==
    [c \in {invites_now[i].code : i \in {k \in DOMAIN invites_now : UsesOrZero(invites_now[k].uses) > 0}} |->
        UsesOrZero(invites_now[CHOOSE i \in DOMAIN invites_now : invites_now[i].code = c].uses)]

\* {code: uses for code, (uses, inv) in after_map.items()}   (codes are distinct)
AfterCache(invites_now) ==
    [c \in {invites_now[i].code : i \in DOMAIN invites_now} |->
        UsesOrZero(invites_now[CHOOSE i \in DOMAIN invites_now : invites_now[i].code = c].uses)]

\* History: what the last successful fetch of a guild returned; a failed fetch
\* leaves it as it is.
GoodAfter(good, fetched) == IF fetched.raised THEN good ELSE AfterCache(fetched.invites)

\* (variant: a member whose inviter is unknown is taken out of the index)
IndexAddOrDrop(index, inviter, mid) ==
    IF inviter # NoUser
    THEN DictSet(index, inviter, DictGet(index, inviter, {}) \cup {mid})
    ELSE [x \in DOMAIN index |-> index[x] \ {mid}]

\* (variant: the member is added to the index without `if used_inviter_id:`)
IndexAddAlways(index, inviter, mid) ==
    DictSet(index, inviter, DictGet(index, inviter, {}) \cup {mid})

\* inviter_index[used_inviter_id].add(member.id), under `if used_inviter_id:`
IndexAdd(index, inviter, mid) ==
    IF inviter # NoUser
    THEN DictSet(index, inviter, DictGet(index, inviter, {}) \cup {mid})
    ELSE index

\* (variant: the members of every inviter)
InvitedByAnyone(index, user) == UNION {index[x] : x \in DOMAIN index}

\* inviter_index.get(user_id, set())
Invited(index, user) == DictGet(index, user, {})

(***************************************************************************)
(* Flagging and its notifications                                          *)
(***************************************************************************)
\* f"Invited by banned user <@{inviter_id}>"
JoinReason(user) == [text |-> "Invited by banned user", user |-> user]
\* f"Invited by now-banned user <@{user.id}>"
BanReason(user) == [text |-> "Invited by now-banned user", user |-> user]

\* (variant: the member of every known inviter is flagged)
InviterIsKnown(inviter, banned) == inviter # NoUser

\* if inviter_id and inviter_id in banned_inviters[guild.id]
InviterIsBanned(inviter, banned) == inviter # NoUser /\ inviter \in banned

\* broadcast_to_some_channels: the channel the loop sends to after channel
\* `ch` with `sent` messages delivered, 0 when the loop is over
BroadcastNext(g, ch, sent) ==
    IF ch + 1 <= NumChannels(g) /\ ~(sent >= JOIN_WARNING_MAX_CHANNELS)
    THEN ch + 1
    ELSE 0

\* A task about to notify about member `mid`: the broadcast first, then the
\* direct messages.
StartBroadcast(task, mid) ==
    LET n == BroadcastNext(task.g, 0, 0)
    IN IF n # 0
       THEN [task EXCEPT !.pc = "bcast", !.ch = n, !.sent = 0, !.told = {"SendChannelMessage"}]
       ELSE [task EXCEPT !.pc = "dm_member", !.ch = 0, !.sent = 0, !.told = {"DmMember"}]

\* the member a task is sending notifications about
AboutOf(task) == IF task.kind \in {"ban", "mark"} THEN Head(task.order) ELSE task.who

\* the command a task waits for at its pc
CmdOf(task) ==
    CASE task.pc = "kick" -> "KickMember"
      [] task.pc = "fetch" -> "FetchInvites"
      [] task.pc = "bcast" -> "SendChannelMessage"
      [] task.pc = "dm_member" -> "DmMember"
      [] task.pc = "dm_owner" -> "DmGuildOwner"
      [] task.pc = "fetch_user" -> "FetchUser"
      [] task.pc = "dm_bot" -> "DmBotOwner"
      [] OTHER -> "none"

\* whom or what that command addresses
TargetOf(task) ==
    CASE task.pc = "kick" -> task.to_kick[task.ki]
      [] task.pc = "bcast" -> task.ch
      [] task.pc = "dm_member" -> AboutOf(task)
      [] task.pc = "sleep" -> 0
      [] OTHER -> task.g

(***************************************************************************)
(* on_member_join: `await fetch_guild_invites(guild)` returns; the inviter *)
(* is resolved and recorded, and the member is flagged when the inviter is *)
(* in banned_inviters.                                                     *)
(***************************************************************************)
ResolveReturn(t, fetched) ==
    /\ tasks[t].kind = "join"
    /\ tasks[t].pc = "fetch"
    /\ fetched \in FetchOutcomes(live[tasks[t].g])
    /\ IF fetched.raised /\ Landing("join", "fetch") = "out"
       THEN Raised(t, "Resolve", FALSE, FALSE)
       ELSE
       /\ LET task == tasks[t]
              g == task.g
              m == task.who
              invites_now == fetched.invites
              used == UsedInviter(task.before, invites_now)
              flag == InviterIsBanned(used, banned_inviters[g])
              next == IF flag
                      THEN StartBroadcast([task EXCEPT !.before = EmptyDict, !.banned_id = used,
                                                       !.older = {}, !.overtaken = FALSE], m)
                      ELSE IdleTask
          IN
          /\ invite_cache' = [invite_cache EXCEPT ![g] = AfterCache(invites_now)]
          /\ member_inviter' = [member_inviter EXCEPT ![g] = DictSet(@, m, used)]
          /\ inviter_index' = IndexAdd(inviter_index, used, m)
          /\ flagged_accounts' =
               IF flag
               THEN [flagged_accounts EXCEPT ![g] = DictSet(@, m, JoinReason(used))]
               ELSE flagged_accounts
          /\ tasks' = [u \in TaskIds |-> IF u = t THEN next ELSE Overtake(u, t)]
          /\ ev' = [NoEvent EXCEPT !.op = "Resolve", !.kind = "join", !.t = t, !.g = g, !.who = m,
                        !.cmd = CmdOf(next), !.target = IF flag THEN TargetOf(next) ELSE 0,
                        !.resolved = used, !.done = ~flag,
                        !.ok = ~fetched.raised,
                        !.dropped = DOMAIN invite_cache[g] \ DOMAIN AfterCache(invites_now),
                        !.stale = task.overtaken,
                        !.decreased = {c \in DOMAIN AfterCache(invites_now) :
                                          AfterCache(invites_now)[c] < DictGet(task.before, c, 0)}]
          /\ last_good' = [last_good EXCEPT ![g] = GoodAfter(@, fetched)]
       /\ UNCHANGED <<now, present, live, join_log, banned_inviters, fresh, hist>>

\* for mid in list(invited): m = guild.get_member(mid); if m: ...
\* what is left of the iteration from the first member in the member cache on,
\* <<>> when the loop is over; the members not in the cache are passed over
RECURSIVE MarkScan(_, _)
MarkScan(order, cache) ==
    IF order = <<>> THEN <<>>
    ELSE IF Head(order) \in cache THEN order
    ELSE MarkScan(Tail(order), cache)

\* flagged_accounts[guild.id][mid] = reason, for the member the loop stops at
MarkFlag(flags, rest, user) ==
    IF rest = <<>> THEN flags ELSE DictSet(flags, Head(rest), JoinReason(user))

\* mark_inviter_banned_and_flag_invitees goes on with its loop after the
\* member at the head of task.order: the next member in the member cache is
\* flagged and the alerts about it start
MarkNext(task) ==
    LET rest == MarkScan(Tail(task.order), present[task.g])
    IN [task |-> IF rest = <<>> THEN IdleTask
                 ELSE StartBroadcast([task EXCEPT !.order = rest], Head(rest)),
        flags |-> MarkFlag(flagged_accounts[task.g], rest, task.who)]

\* broadcast_to_some_channels: the loop goes on after channel task.ch, to the
\* next channel or, when it is over, to the direct message to the member
AfterChannel(task) ==
    LET n == BroadcastNext(task.g, task.ch, task.sent)
    IN IF n # 0
       THEN [task EXCEPT !.pc = "bcast", !.ch = n]
       ELSE [task EXCEPT !.pc = "dm_member", !.ch = 0, !.sent = 0, !.told = @ \cup {"DmMember"}]

\* What a handler does when `await ch.send(message)` has raised: in the
\* channel loop `except Exception: continue`; were the exception to pass that
\* loop, on_member_join would go on to its direct messages (`except
\* Exception: pass` around the broadcast) and
\* mark_inviter_banned_and_flag_invitees to its next member.
SendFailed(task) ==
    LET land == Landing(task.kind, "send")
    IN IF land = "mark_alert" THEN MarkNext(task)
       ELSE [task |-> IF land = "join_broadcast"
                      THEN [task EXCEPT !.pc = "dm_member", !.ch = 0, !.sent = 0,
                                        !.told = @ \cup {"DmMember"}]
                      ELSE AfterChannel(task),
             flags |-> flagged_accounts[task.g]]

(***************************************************************************)
(* `await ch.send(message)` of broadcast_to_some_channels returns (ok):    *)
(* `sent += 1` and the handler awaits `asyncio.sleep(0.15)`; or it raises  *)
(* (~ok: `except Exception: continue`) and the loop goes on at once.       *)
(***************************************************************************)
BroadcastReturn(t, ok) ==
    /\ tasks[t].pc = "bcast"
    /\ IF ~ok /\ Landing(tasks[t].kind, "send") = "out"
       THEN Raised(t, "BroadcastReturn", ok, FALSE)
       ELSE
       /\ LET task == tasks[t]
              r == IF ok
                   THEN [task |-> [task EXCEPT !.pc = "sleep", !.sent = @ + 1],
                         flags |-> flagged_accounts[task.g]]
                   ELSE SendFailed(task)
              next == r.task
          IN
          /\ flagged_accounts' = [flagged_accounts EXCEPT ![task.g] = r.flags]
          /\ tasks' = [tasks EXCEPT ![t] = next]
          /\ ev' = [NoEvent EXCEPT !.op = "BroadcastReturn", !.kind = task.kind, !.t = t, !.g = task.g,
                        !.who = task.who, !.cmd = CmdOf(next),
                        !.target = IF next.kind = "idle" THEN 0 ELSE TargetOf(next), !.ok = ok,
                        !.done = next.kind = "idle", !.about = AboutOf(task)]
       /\ UNCHANGED <<last_good, now, present, live, join_log, invite_cache, member_inviter,
                      inviter_index, banned_inviters, fresh, hist>>

(***************************************************************************)
(* `await asyncio.sleep(0.15)` of broadcast_to_some_channels is over: the  *)
(* loop goes on.                                                           *)
(***************************************************************************)
SleepReturn(t) ==
    /\ tasks[t].pc = "sleep"
    /\ LET task == tasks[t]
           next == AfterChannel(task)
       IN
       /\ tasks' = [tasks EXCEPT ![t] = next]
       /\ ev' = [NoEvent EXCEPT !.op = "SleepReturn", !.kind = task.kind, !.t = t, !.g = task.g,
                     !.who = task.who, !.cmd = CmdOf(next), !.target = TargetOf(next),
                     !.about = AboutOf(task)]
    /\ UNCHANGED <<last_good, now, present, live, join_log, invite_cache, member_inviter,
                   inviter_index, flagged_accounts, banned_inviters, fresh, hist>>

(***************************************************************************)
(* on_member_ban                                                           *)
(***************************************************************************)
\* for mid in invited: flagged_accounts[g][mid] = ...; m = guild.get_member(mid); if m: await m.send
\* `order` is what is left of the iteration.  The members up to and including
\* the first one in the member cache are flagged; `rest` starts with that member
\* (the handler awaits the message to it) and is <<>> when the loop is over.
RECURSIVE SweepScan(_, _, _, _)
SweepScan(order, flags, cache, user) ==
    IF order = <<>> THEN [rest |-> <<>>, flags |-> flags]
    ELSE LET mid == Head(order)
             flags2 == DictSet(flags, mid, BanReason(user))
         IN IF mid \in cache
            THEN [rest |-> order, flags |-> flags2]
            ELSE SweepScan(Tail(order), flags2, cache, user)

\* Iterating a Python set that has changed size raises RuntimeError at the
\* next step of the iteration.
SetChangedSize(task) == Cardinality(Invited(inviter_index, task.who)) # task.size0

BanArrive(g, user) ==
    /\ FreeSlots # {}
    /\ \E order \in Orderings(Invited(inviter_index, user)) :
         LET t == NewSlot
             dup == user \in banned_inviters[g]
             scan == SweepScan(order, flagged_accounts[g], present[g], user)
             done == scan.rest = <<>>
             next == IF done THEN IdleTask
                     ELSE [IdleTask EXCEPT !.kind = "ban", !.pc = "dm_member", !.g = g,
                                           !.who = user, !.order = scan.rest,
                                           !.size0 = Len(order), !.dup = dup,
                                           !.told = {"DmMember"}]
         IN
         /\ banned_inviters' = [banned_inviters EXCEPT ![g] = @ \cup {user}]
         /\ flagged_accounts' = [flagged_accounts EXCEPT ![g] = scan.flags]
         /\ tasks' = [tasks EXCEPT ![t] = next]
         /\ ev' = [NoEvent EXCEPT !.op = "Ban", !.kind = "ban", !.t = t, !.g = g, !.who = user,
                       !.cmd = CmdOf(next), !.target = IF done THEN 0 ELSE TargetOf(next),
                       !.done = done, !.dup = dup]
    /\ UNCHANGED <<last_good, now, present, live, join_log, invite_cache, member_inviter,
                   inviter_index, fresh, hist>>

(***************************************************************************)
(* mark_inviter_banned_and_flag_invitees, with                             *)
(* flag_and_alert_on_existing_member.  No handler and no command of the    *)
(* bot calls it: it runs only when something else calls it.                *)
(***************************************************************************)
MarkArrive(g, user) ==
    IF user \in banned_inviters[g]
    THEN /\ ev' = [NoEvent EXCEPT !.op = "Mark", !.kind = "mark", !.g = g, !.who = user,
                        !.done = TRUE, !.dup = TRUE]
         /\ UNCHANGED <<last_good, now, present, live, join_log, invite_cache, member_inviter,
                        inviter_index, flagged_accounts, banned_inviters, tasks, fresh, hist>>
    ELSE /\ FreeSlots # {}
         /\ \E order \in Orderings(Invited(inviter_index, user)) :
              LET t == NewSlot
                  rest == MarkScan(order, present[g])
                  done == rest = <<>>
                  next == IF done THEN IdleTask
                          ELSE StartBroadcast([IdleTask EXCEPT !.kind = "mark", !.g = g, !.who = user,
                                                               !.order = rest, !.banned_id = user],
                                              Head(rest))
              IN
              /\ banned_inviters' = [banned_inviters EXCEPT ![g] = @ \cup {user}]
              /\ flagged_accounts' = [flagged_accounts EXCEPT ![g] = MarkFlag(@, rest, user)]
              /\ tasks' = [tasks EXCEPT ![t] = next]
              /\ ev' = [NoEvent EXCEPT !.op = "Mark", !.kind = "mark", !.t = t, !.g = g, !.who = user,
                            !.cmd = CmdOf(next), !.target = IF done THEN 0 ELSE TargetOf(next),
                            !.done = done]
         /\ UNCHANGED <<last_good, now, present, live, join_log, invite_cache, member_inviter,
                        inviter_index, fresh, hist>>

\* (variant: a direct message that raised ends the notifications)
NextDmAbort(pc, g, ok) ==
    IF ~ok THEN "end"
    ELSE IF pc = "dm_member" /\ HasOwner(g) THEN "dm_owner"
    ELSE IF pc \in {"dm_member", "dm_owner"} THEN "fetch_user"
    ELSE IF pc = "fetch_user" THEN "dm_bot"
    ELSE "end"

\* try: await m.send(...) except Exception: pass
\* try: if guild.owner: await guild.owner.send(...) except Exception: pass
\* try: owner = await bot.fetch_user(BOT_OWNER_ID); await owner.send(...) except Exception: pass
\* the call that follows the one at `pc`, "end" after the last: the lookup
\* of the bot's owner comes before the message to them, and when it raises the
\* message is not sent
NextDm(pc, g, ok) ==
    IF pc = "dm_member" /\ HasOwner(g) THEN "dm_owner"
    ELSE IF pc \in {"dm_member", "dm_owner"} THEN "fetch_user"
    ELSE IF pc = "fetch_user" /\ ok THEN "dm_bot"
    ELSE "end"

\* What a handler does when the call at its pc has returned (ok) or raised
\* (~ok, `except Exception: pass`): it goes on to the next call about the same
\* member; after the last one on_member_join ends, on_member_ban goes on with
\* its loop over the set (RuntimeError when the set has changed size), and
\* mark_inviter_banned_and_flag_invitees goes on with its loop over the copy.
\* An exception that lands at the outer `except` of on_member_ban ends the
\* handler (it returns after the print); one that lands at the `except` of
\* mark_inviter_banned_and_flag_invitees ends the alerts about the member;
\* one that lands nowhere leaves the handler (raised).
NotifyNext(task, ok) ==
    LET g == task.g
        land == IF ok THEN "none" ELSE Landing(task.kind, "dm")
        cut == land = "on_member_ban"
        nxt == IF land = "mark_alert" THEN "end" ELSE NextDm(task.pc, g, ok)
        last == nxt = "end" /\ ~cut
        err == last /\ task.kind = "ban" /\ SetChangedSize(task)
        scan == IF last /\ task.kind = "ban" /\ ~err
                THEN SweepScan(Tail(task.order), flagged_accounts[g], present[g], task.who)
                ELSE IF last /\ task.kind = "mark"
                THEN LET n == MarkNext(task)
                     IN [rest |-> IF n.task.kind = "idle" THEN <<>> ELSE n.task.order,
                         flags |-> n.flags]
                ELSE [rest |-> <<>>, flags |-> flagged_accounts[g]]
        next == IF cut THEN IdleTask
                ELSE IF ~last
                THEN [task EXCEPT !.pc = nxt, !.told = @ \cup {CmdOf([task EXCEPT !.pc = nxt])}]
                ELSE IF scan.rest = <<>> THEN IdleTask
                ELSE IF task.kind = "mark" THEN MarkNext(task).task
                ELSE [task EXCEPT !.pc = "dm_member", !.order = scan.rest, !.told = {"DmMember"}]
    IN [task |-> next, flags |-> scan.flags, last |-> last, err |-> err,
        raised |-> land = "out" \/ (err /\ Landing(task.kind, "sweep") = "out")]

(***************************************************************************)
(* A direct message returns or raises (`except Exception: pass`): to the    *)
(* flagged member, then to guild.owner if there is one, then (after the    *)
(* lookup of the bot's owner) to the bot's owner.                          *)
(***************************************************************************)
DmReturn(t, ok) ==
    /\ tasks[t].pc \in {"dm_member", "dm_owner", "dm_bot"}
    /\ IF NotifyNext(tasks[t], ok).raised
       THEN Raised(t, "DmReturn", ok, NotifyNext(tasks[t], ok).err)
       ELSE
       /\ LET task == tasks[t]
              g == task.g
              r == NotifyNext(task, ok)
              next == r.task
          IN
          /\ flagged_accounts' = [flagged_accounts EXCEPT ![g] = r.flags]
          /\ tasks' = [tasks EXCEPT ![t] = next]
          /\ ev' = [NoEvent EXCEPT !.op = "DmReturn", !.kind = task.kind, !.t = t, !.g = g, !.who = task.who,
                        !.cmd = CmdOf(next),
                        !.target = IF next.kind = "idle" THEN 0 ELSE TargetOf(next),
                        !.done = next.kind = "idle", !.dup = task.dup, !.err = r.err, !.ok = ok,
                        !.about = AboutOf(task), !.told = IF r.last THEN task.told ELSE {}]
       /\ UNCHANGED <<last_good, now, present, live, join_log, invite_cache, member_inviter,
                      inviter_index, banned_inviters, fresh, hist>>

(***************************************************************************)
(* `owner = await bot.fetch_user(BOT_OWNER_ID)` returns (ok): the handler  *)
(* sends the message to the bot's owner; or it raises (~ok): the           *)
(* `except Exception: pass` around the lookup and the message absorbs it,  *)
(* and no message to the bot's owner is sent.                              *)
(***************************************************************************)
FetchUserReturn(t, ok) ==
    /\ tasks[t].pc = "fetch_user"
    /\ IF NotifyNext(tasks[t], ok).raised
       THEN Raised(t, "FetchUserReturn", ok, NotifyNext(tasks[t], ok).err)
       ELSE
       /\ LET task == tasks[t]
              g == task.g
              r == NotifyNext(task, ok)
              next == r.task
          IN
          /\ flagged_accounts' = [flagged_accounts EXCEPT ![g] = r.flags]
          /\ tasks' = [tasks EXCEPT ![t] = next]
          /\ ev' = [NoEvent EXCEPT !.op = "FetchUserReturn", !.kind = task.kind, !.t = t, !.g = g,
                        !.who = task.who, !.cmd = CmdOf(next),
                        !.target = IF next.kind = "idle" THEN 0 ELSE TargetOf(next),
                        !.done = next.kind = "idle", !.dup = task.dup, !.err = r.err, !.ok = ok,
                        !.about = AboutOf(task), !.told = IF r.last THEN task.told ELSE {}]
       /\ UNCHANGED <<last_good, now, present, live, join_log, invite_cache, member_inviter,
                      inviter_index, banned_inviters, fresh, hist>>

(***************************************************************************)
(* An outbound call that never returns.  `await m.kick(...)`, `await       *)
(* ch.send(...)`, the direct messages and the lookup of the bot's owner    *)
(* are awaited as they are, without asyncio.wait_for or any other timeout: *)
(* the handler stays at that await.  At most one call hangs.               *)
(***************************************************************************)
Hang(t) ==
    /\ tasks[t].pc \in {"kick", "bcast", "dm_member", "dm_owner", "fetch_user", "dm_bot"}
    /\ \A u \in TaskIds : tasks[u].pc # "hung"
    /\ tasks' = [tasks EXCEPT ![t].pc = "hung"]
    /\ ev' = [NoEvent EXCEPT !.op = "Hang", !.kind = tasks[t].kind, !.t = t, !.g = tasks[t].g]
    /\ UNCHANGED <<last_good, now, present, live, join_log, invite_cache, member_inviter,
                   inviter_index, flagged_accounts, banned_inviters, fresh, hist>>

(***************************************************************************)
(* on_guild_join, on_invite_create, on_invite_delete:                      *)
(* cache_invites_for_guild                                                 *)
(***************************************************************************)
\* the task of a handler that calls cache_invites_for_guild(guild)
RefreshTask(g) ==
    [IdleTask EXCEPT !.kind = "refresh", !.pc = "fetch", !.g = g, !.older = Fetching(g)]

\* on_guild_join (the invite cache of the guild is filled for the first time
\* by on_ready or on_guild_join)
RefreshArrive(g) ==
    /\ FreeSlots # {}
    /\ tasks' = [tasks EXCEPT ![NewSlot] = RefreshTask(g)]
    /\ ev' = [NoEvent EXCEPT !.op = "Refresh", !.kind = "refresh", !.t = NewSlot, !.g = g,
                  !.cmd = "FetchInvites", !.target = g]
    /\ UNCHANGED <<last_good, now, present, live, join_log, invite_cache, member_inviter,
                   inviter_index, flagged_accounts, banned_inviters, fresh, hist>>

\* on_invite_create: the platform has a new invite `code` with no uses
InviteCreated(g, code) ==
    /\ FreeSlots # {}
    /\ code \notin DOMAIN live[g]
    /\ live' = [live EXCEPT ![g] = DictSet(@, code, 0)]
    /\ tasks' = [tasks EXCEPT ![NewSlot] = RefreshTask(g)]
    /\ ev' = [NoEvent EXCEPT !.op = "InviteCreate", !.kind = "refresh", !.t = NewSlot, !.g = g,
                  !.cmd = "FetchInvites", !.target = g]
    /\ UNCHANGED <<last_good, now, present, join_log, invite_cache, member_inviter,
                   inviter_index, flagged_accounts, banned_inviters, fresh, hist>>

\* on_invite_delete: the platform has dropped the invite `code`
InviteDeleted(g, code) ==
    /\ FreeSlots # {}
    /\ code \in DOMAIN live[g]
    /\ live' = [live EXCEPT ![g] = [c \in DOMAIN @ \ {code} |-> @[c]]]
    /\ tasks' = [tasks EXCEPT ![NewSlot] = RefreshTask(g)]
    /\ ev' = [NoEvent EXCEPT !.op = "InviteDelete", !.kind = "refresh", !.t = NewSlot, !.g = g,
                  !.cmd = "FetchInvites", !.target = g]
    /\ UNCHANGED <<last_good, now, present, join_log, invite_cache, member_inviter,
                   inviter_index, flagged_accounts, banned_inviters, fresh, hist>>

\* cache_invites_for_guild: `await fetch_guild_invites(guild)` returns;
\* cache = {inv.code: inv.uses or 0}; invite_cache[guild.id] = cache
RefreshReturn(t, fetched) ==
    /\ tasks[t].kind = "refresh"
    /\ tasks[t].pc = "fetch"
    /\ fetched \in FetchOutcomes(live[tasks[t].g])
    /\ IF fetched.raised /\ Landing("refresh", "fetch") = "out"
       THEN Raised(t, "RefreshReturn", FALSE, FALSE)
       ELSE
       /\ LET g == tasks[t].g
              invites == fetched.invites
          IN
          /\ invite_cache' = [invite_cache EXCEPT ![g] = AfterCache(invites)]
          /\ tasks' = [u \in TaskIds |-> IF u = t THEN IdleTask ELSE Overtake(u, t)]
          /\ ev' = [NoEvent EXCEPT !.op = "RefreshReturn", !.kind = "refresh", !.t = t, !.g = g,
                        !.done = TRUE,
                        !.ok = ~fetched.raised,
                        !.dropped = DOMAIN invite_cache[g] \ DOMAIN AfterCache(invites),
                        !.stale = tasks[t].overtaken]
          /\ last_good' = [last_good EXCEPT ![g] = GoodAfter(@, fetched)]
       /\ UNCHANGED <<now, present, live, join_log, member_inviter,
                      inviter_index, flagged_accounts, banned_inviters, fresh, hist>>

(***************************************************************************)
(* Specifications.  Each one runs the same handlers in a different world.  *)
(***************************************************************************)
NoInvites == [g \in Guilds |-> EmptyDict]
TwoInvites == [g \in Guilds |-> IF g = 1 THEN [c \in {"a", "b"} |-> 0] ELSE EmptyDict]

\* The raid world: no invites (every fetch returns the empty listing);
\* members 1 and 2 come to and go from guild 1, member 3 comes to guild 2;
\* kicks succeed or fail.
InitRaid == InitWith(NoInvites)
NextRaid ==
    \/ Tick
    \/ \E m \in {1, 2} : MemberLeave(1, m)
    \/ \E m \in {1, 2} : JoinArrive(1, m, NoCode)
    \/ JoinArrive(2, 3, NoCode)
    \/ \E t \in TaskIds, ok \in BOOLEAN : KickReturn(t, ok)
    \/ \E t \in TaskIds : \E fetched \in {f \in FetchOutcomes(live[1]) : ~f.raised} :
           ResolveReturn(t, fetched)
SpecRaid == InitRaid /\ [][NextRaid]_vars

\* The invite world, within one second: guild 1 has the invites a (of user
\* 11) and b (of user 12); members 1 and 3 join through a, member 2 through
\* one or the other; user 11 is banned (any number of times); a fetch of the
\* invites may fail, every notification call returns normally; the bot may not
\* kick, so every kick fails and nobody leaves.
InitAlt == InitWith(TwoInvites)
NextAlt ==
    \/ \E m \in Members, via \in {"a", "b"} : (m # 2 => via = "a") /\ JoinArrive(1, m, via)
    \/ \E t \in TaskIds : KickReturn(t, FALSE)
    \/ \E t \in TaskIds : \E fetched \in FetchOutcomes(live[1]) : ResolveReturn(t, fetched)
    \/ \E t \in TaskIds : BroadcastReturn(t, TRUE)
    \/ \E t \in TaskIds : SleepReturn(t)
    \/ \E t \in TaskIds : DmReturn(t, TRUE)
    \/ \E t \in TaskIds : FetchUserReturn(t, TRUE)
    \/ BanArrive(1, 11)
SpecAlt == InitAlt /\ [][NextAlt]_vars

\* The notification world, within one second: guild 1 has the invites a and
\* b; members 1 and 2 join through one or the other; user 11 is banned (any
\* number of times); every call (the fetch of the invites, a channel message,
\* a direct message, the lookup of the bot's owner) returns or raises; the
\* bot may not kick, so every kick fails and nobody leaves.
InitNotify == InitWith(TwoInvites)
NextNotify ==
    \/ \E m \in {1, 2}, via \in {"a", "b"} : JoinArrive(1, m, via)
    \/ \E t \in TaskIds : KickReturn(t, FALSE)
    \/ \E t \in TaskIds : \E fetched \in FetchOutcomes(live[1]) : ResolveReturn(t, fetched)
    \/ \E t \in TaskIds, ok \in BOOLEAN : BroadcastReturn(t, ok)
    \/ \E t \in TaskIds : SleepReturn(t)
    \/ \E t \in TaskIds, ok \in BOOLEAN : DmReturn(t, ok)
    \/ \E t \in TaskIds, ok \in BOOLEAN : FetchUserReturn(t, ok)
    \/ BanArrive(1, 11)
SpecNotify == InitNotify /\ [][NextNotify]_vars

\* The world of failing calls, within one second: members 1 and 2 join guild
\* 1 through invite a of user 11, leave and come again; user 11 is banned (any
\* number of times); every call (the fetch of the invites, a kick, a channel
\* message, a direct message, the lookup of the bot's owner) returns or
\* raises.
InitErr == InitWith(TwoInvites)
NextErr ==
    \/ \E m \in {1, 2} : JoinArrive(1, m, "a")
    \/ \E m \in {1, 2} : MemberLeave(1, m)
    \/ \E t \in TaskIds, ok \in BOOLEAN : KickReturn(t, ok)
    \/ \E t \in TaskIds : \E fetched \in FetchOutcomes(live[1]) : ResolveReturn(t, fetched)
    \/ \E t \in TaskIds, ok \in BOOLEAN : BroadcastReturn(t, ok)
    \/ \E t \in TaskIds : SleepReturn(t)
    \/ \E t \in TaskIds, ok \in BOOLEAN : DmReturn(t, ok)
    \/ \E t \in TaskIds, ok \in BOOLEAN : FetchUserReturn(t, ok)
    \/ BanArrive(1, 11)
SpecErr == InitErr /\ [][NextErr]_vars

\* The world of a caller of mark_inviter_banned_and_flag_invitees, within one
\* second: members 1 and 2 join guild 1 through invite a of user 11 and may
\* leave; the coroutine is called for user 11 (any number of times); every
\* notification call returns or raises; the bot may not kick.
InitMark == InitWith(TwoInvites)
NextMark ==
    \/ \E m \in {1, 2} : JoinArrive(1, m, "a")
    \/ \E m \in {1, 2} : MemberLeave(1, m)
    \/ \E t \in TaskIds : KickReturn(t, FALSE)
    \/ \E t \in TaskIds : \E fetched \in FetchOutcomes(live[1]) : ResolveReturn(t, fetched)
    \/ \E t \in TaskIds, ok \in BOOLEAN : BroadcastReturn(t, ok)
    \/ \E t \in TaskIds : SleepReturn(t)
    \/ \E t \in TaskIds, ok \in BOOLEAN : DmReturn(t, ok)
    \/ \E t \in TaskIds, ok \in BOOLEAN : FetchUserReturn(t, ok)
    \/ MarkArrive(1, 11)
SpecMark == InitMark /\ [][NextMark]_vars

\* The snapshot world, within one second: guild 1 has the invites a and b;
\* members 1 and 2 join through a or b; invite b is deleted and created again
\* (its use count starts at 0 again); the
\* bot joins the guild (a plain refresh); any fetch may fail; the bot may not
\* kick, so every kick fails and nobody leaves.
InitSnap == InitWith(TwoInvites)
NextSnap ==
    \/ \E m \in {1, 2}, via \in {"a", "b"} : JoinArrive(1, m, via)
    \/ \E t \in TaskIds : KickReturn(t, FALSE)
    \/ \E t \in TaskIds : \E fetched \in FetchOutcomes(live[1]) : ResolveReturn(t, fetched)
    \/ RefreshArrive(1)
    \/ InviteCreated(1, "b")
    \/ InviteDeleted(1, "b")
    \/ \E t \in TaskIds : \E fetched \in FetchOutcomes(live[1]) : RefreshReturn(t, fetched)
SpecSnap == InitSnap /\ [][NextSnap]_vars

\* The two-guild world, within one second: members 1 and 2 join guild 1
\* through invite a of user 11, members 1 and 3 join guild 2, which has no
\* invites; user 11 is banned from guild 2 and from guild 1; a fetch of the
\* invites may fail, every notification call returns normally; the bot may not
\* kick, so every kick fails and nobody leaves.
InitScope == InitWith(TwoInvites)
NextScope ==
    \/ \E m \in {1, 2} : JoinArrive(1, m, "a")
    \/ \E m \in {1, 3} : JoinArrive(2, m, NoCode)
    \/ \E t \in TaskIds : KickReturn(t, FALSE)
    \/ \E t \in TaskIds, g \in Guilds : \E fetched \in FetchOutcomes(live[g]) : ResolveReturn(t, fetched)
    \/ \E t \in TaskIds : BroadcastReturn(t, TRUE)
    \/ \E t \in TaskIds : SleepReturn(t)
    \/ \E t \in TaskIds : DmReturn(t, TRUE)
    \/ \E t \in TaskIds : FetchUserReturn(t, TRUE)
    \/ \E g \in Guilds : BanArrive(g, 11)
SpecScope == InitScope /\ [][NextScope]_vars

\* The world of the unresponsive call, within one second: members 1 and 2
\* come to guild 1 (and come again when they have been kicked); kicks succeed
\* or fail, and one outbound call may never return.  Every other call returns
\* in the end, and the event loop resumes the handler that awaits it.
InitHang == InitWith(NoInvites)
NextHang ==
    \/ \E m \in {1, 2} : JoinArrive(1, m, NoCode)
    \/ \E t \in TaskIds, ok \in BOOLEAN : KickReturn(t, ok)
    \/ \E t \in TaskIds : \E fetched \in FetchOutcomes(live[1]) : ResolveReturn(t, fetched)
    \/ \E t \in TaskIds : Hang(t)
SpecHang ==
    /\ InitHang /\ [][NextHang]_vars
    /\ \A t \in TaskIds : WF_vars(\E ok \in BOOLEAN : KickReturn(t, ok))
    /\ \A t \in TaskIds : WF_vars(\E fetched \in FetchOutcomes(live[1]) : ResolveReturn(t, fetched))

\* no handler is in flight
Quiet == \A t \in TaskIds : tasks[t].kind = "idle"

\* The world of handlers that never overlap, within one second: guild 1 has
\* the invites a and b; an event (a join through a or b, a refresh) arrives
\* only when the handler before it has ended; any fetch may fail; the bot may
\* not kick, so every kick fails and nobody leaves.
InitSerial == InitWith(TwoInvites)
NextSerial ==
    \/ Quiet /\ \E m \in Members, via \in {"a", "b"} : JoinArrive(1, m, via)
    \/ \E t \in TaskIds : KickReturn(t, FALSE)
    \/ \E t \in TaskIds : \E fetched \in FetchOutcomes(live[1]) : ResolveReturn(t, fetched)
    \/ Quiet /\ RefreshArrive(1)
    \/ \E t \in TaskIds : \E fetched \in FetchOutcomes(live[1]) : RefreshReturn(t, fetched)
SpecSerial == InitSerial /\ [][NextSerial]_vars

(***************************************************************************)
(* Properties of the raid detector (checked under SpecRaid).               *)
(***************************************************************************)
\* the timestamps of a join log, oldest first
TimesOf(log) == [i \in DOMAIN log |-> log[i][1]]
WithinWindow(t) == now - t <= RAID_WINDOW_SECONDS

\* C1: a join starts a kick sweep if and only if the window, right after the
\* join is appended and the old entries are pruned, holds more than
\* RAID_THRESHOLD_JOINS entries; with exactly RAID_THRESHOLD_JOINS it starts none.
C1_TriggerIffAboveThreshold ==
    ev.op = "Join" =>
        /\ (tasks[ev.t].pc = "kick") <=> (Len(join_log[ev.g]) > RAID_THRESHOLD_JOINS)
        /\ (ev.cmd = "KickMember") <=> (Len(join_log[ev.g]) > RAID_THRESHOLD_JOINS)
        /\ ev.trig <=> (tasks[ev.t].pc = "kick")
C1_Witness ==
    /\ ev.op = "Join"
    /\ tasks[ev.t].pc = "kick"
    /\ Len(join_log[ev.g]) = RAID_THRESHOLD_JOINS + 1

\* C2: a raid action is triggered only when the window holds at least
\* RAID_THRESHOLD_JOINS + 1 joins recorded after the previous trigger of the guild
\* (ev.fresh counts the entries of the window recorded after the previous trigger).
C2_NoRetriggerWithoutNewBurst ==
    ev.trig => ev.fresh >= RAID_THRESHOLD_JOINS + 1

\* C3 as claimed: when a raid action ends, a KickMember command has been issued
\* for every member id that was in the window at the trigger.
C3_KicksWholeWindow ==
    ev.fin => ev.kicked = ev.cohort
\* C3 as amended: the sweep runs over exactly the member ids of the window at the
\* trigger; every KickMember command goes to one of them that is in the guild's
\* member cache at that moment, and when the sweep ends every one of them was
\* either sent a kick or passed over because it had left the member cache.
C3_KicksWindowMembersStillCached ==
    /\ ev.trig /\ ~ev.fin => Range(tasks[ev.t].to_kick) = MemberIds(join_log[ev.g])
    /\ ev.cmd = "KickMember" =>
          /\ ev.target \in Range(tasks[ev.t].to_kick)
          /\ ev.target \in present[ev.g]
          /\ ev.target \in tasks[ev.t].kicked
    /\ \A t \in TaskIds : tasks[t].pc = "kick" =>
          tasks[t].kicked \cup tasks[t].skipped =
             {tasks[t].to_kick[i] : i \in 1..tasks[t].ki}
    /\ ev.fin =>
          /\ ev.kicked \cup ev.skipped = ev.cohort
          /\ ev.kicked # {}
C3_Witness ==
    /\ ev.fin
    /\ ev.skipped \ ev.kicked # {}
    /\ ev.kicked # {}

\* C4: when a raid action ends the guild's window is empty, and a join that
\* finds the window empty starts no raid action (nothing but the window tells
\* the detector that it has triggered before).
C4_WindowEmptyAfterRaid ==
    [][/\ ev'.fin => join_log'[ev'.g] = <<>>
       /\ \A g \in Guilds : ev'.op = "Join" /\ ev'.g = g /\ join_log[g] = <<>> => ~ev'.trig]_vars
C4_Witness ==
    /\ ev.fin
    /\ ev.kicked # {}
    /\ join_log[ev.g] = <<>>

\* C5: right after a join is recorded at time t, the window holds exactly the
\* joins recorded since the log was last cleared whose age t - ti is at most
\* RAID_WINDOW_SECONDS, in the order of their arrival.
C5_WindowCount ==
    ev.op = "Join" /\ ~ev.fin =>
        /\ TimesOf(join_log[ev.g]) = SelectSeq(hist[ev.g], WithinWindow)
        /\ Len(join_log[ev.g]) =
              Cardinality({i \in DOMAIN hist[ev.g] : now - hist[ev.g][i] <= RAID_WINDOW_SECONDS})
C5_Witness ==
    /\ ev.op = "Join"
    /\ \E i \in DOMAIN hist[ev.g] : now - hist[ev.g][i] = RAID_WINDOW_SECONDS
    /\ \E i \in DOMAIN hist[ev.g] : now - hist[ev.g][i] > RAID_WINDOW_SECONDS
    /\ Len(join_log[ev.g]) = 2

(***************************************************************************)
(* Properties of the inviter attribution and the alt flagging (checked     *)
(* under SpecAlt).                                                         *)
(***************************************************************************)
\* the codes of the after-snapshot whose use count is above the before-snapshot's
IncreasedCodes(before, after) == {c \in DOMAIN after : after[c] > DictGet(before, c, 0)}

\* C6: when the inviter detection of a join returns and exactly one code of
\* the after-snapshot has more uses than in the snapshot the handler read
\* before fetching, and that invite's inviter is X, then the detection returns
\* X, member_inviter[g][m] is X and m is in inviter_index[X].
C6_SingleIncreaseResolves ==
    [][\A t \in TaskIds :
          (tasks[t].kind = "join" /\ tasks[t].pc = "fetch" /\ ev'.op = "Resolve" /\ ev'.t = t) =>
             LET g == tasks[t].g
                 m == tasks[t].who
                 inc == IncreasedCodes(tasks[t].before, invite_cache'[g])
             IN \A c \in inc :
                   (inc = {c} /\ InviterOf(c) # NoUser) =>
                      /\ ev'.resolved = InviterOf(c)
                      /\ m \in DOMAIN member_inviter'[g]
                      /\ member_inviter'[g][m] = InviterOf(c)
                      /\ InviterOf(c) \in DOMAIN inviter_index'
                      /\ m \in inviter_index'[InviterOf(c)]]_vars
C6_Witness ==
    /\ ev.op = "Resolve"
    /\ ev.resolved = 11
    /\ invite_cache[ev.g] = [c \in {"a", "b"} |-> IF c = "a" THEN 1 ELSE 0]
    /\ ev.who \in Invited(inviter_index, 11)
    /\ member_inviter[ev.g][ev.who] = 11

\* C7: when the ban handler for (g, X) has ended, every member id in
\* inviter_index[X] has a flag record in g whose reason names X.
C7_SweepComplete ==
    ev.kind = "ban" /\ ev.done =>
        \A m \in Invited(inviter_index, ev.who) :
            /\ m \in DOMAIN flagged_accounts[ev.g]
            /\ flagged_accounts[ev.g][m].user = ev.who

\* C8: a ban event for a user who is already in banned_inviters[g] changes no
\* flag record and issues no notification.
C8_RepeatedBanIsNoOp ==
    [][ev'.kind = "ban" /\ ev'.dup =>
          /\ flagged_accounts' = flagged_accounts
          /\ ev'.cmd = "none"]_vars

\* C9: banned_inviters and the flag records only grow; when a join resolves
\* to an inviter who is in banned_inviters[g], the member has a flag record
\* as soon as the detection returns; when it resolves to no inviter or to one
\* who is not banned in g, no step of the join handler changes a flag record.
C9_ImmediateFlagging ==
    [][/\ \A g \in Guilds : /\ banned_inviters[g] \subseteq banned_inviters'[g]
                            /\ DOMAIN flagged_accounts[g] \subseteq DOMAIN flagged_accounts'[g]
       /\ ev'.op = "Resolve" =>
             IF ev'.resolved # NoUser /\ ev'.resolved \in banned_inviters[ev'.g]
             THEN /\ ev'.who \in DOMAIN flagged_accounts'[ev'.g]
                  /\ flagged_accounts'[ev'.g][ev'.who].user = ev'.resolved
             ELSE flagged_accounts' = flagged_accounts
       /\ ev'.kind = "join" /\ ev'.op # "Resolve" => flagged_accounts' = flagged_accounts]_vars
C9_Witness ==
    /\ ev.op = "Resolve"
    /\ ev.resolved = 11
    /\ 11 \in banned_inviters[ev.g]
    /\ ev.who \in DOMAIN flagged_accounts[ev.g]
    /\ flagged_accounts[ev.g][ev.who] = JoinReason(11)
    /\ \A t \in TaskIds : tasks[t].kind # "ban"

\* C10: a flag record, once stored, never changes.
C10_FlagNeverOverwritten ==
    [][\A g \in Guilds : \A m \in DOMAIN flagged_accounts[g] :
          /\ m \in DOMAIN flagged_accounts'[g]
          /\ flagged_accounts'[g][m] = flagged_accounts[g][m]]_vars

(***************************************************************************)
(* Properties of the invite snapshot (checked under SpecSnap).             *)
(***************************************************************************)
\* C11: when the inviter detection of a join returns and no code of the
\* after-snapshot has more uses than in the snapshot the handler read before
\* fetching (the two are equal, or the fetch failed and the after-snapshot is
\* empty), the detection returns no inviter, member_inviter[g][m] is recorded
\* as None and inviter_index is unchanged.
C11_NoIncreaseResolvesUnknown ==
    [][\A t \in TaskIds :
          (tasks[t].kind = "join" /\ tasks[t].pc = "fetch" /\ ev'.op = "Resolve" /\ ev'.t = t) =>
             LET g == tasks[t].g
                 m == tasks[t].who
             IN IncreasedCodes(tasks[t].before, invite_cache'[g]) = {} =>
                   /\ ev'.resolved = NoUser
                   /\ m \in DOMAIN member_inviter'[g]
                   /\ member_inviter'[g][m] = NoUser
                   /\ inviter_index' = inviter_index]_vars
C11_Witness ==
    /\ ev.op = "Resolve"
    /\ ev.ok
    /\ ev.resolved = NoUser
    /\ "a" \in DOMAIN invite_cache[ev.g]
    /\ invite_cache[ev.g]["a"] > 0
    /\ member_inviter[ev.g][ev.who] = NoUser
    /\ ev.who \notin Invited(inviter_index, 11)

\* C12: when the inviter detection of a join returns, whatever it resolved,
\* the stored snapshot of the guild is the after-snapshot of its fetch: the
\* platform's invites with their use counts, or the empty snapshot when the
\* fetch failed; a code that is not in the after-snapshot is not stored any more.
C12_SnapshotReplacedByAfter ==
    [][ev'.op = "Resolve" =>
          /\ invite_cache'[ev'.g] = (IF ev'.ok THEN live[ev'.g] ELSE EmptyDict)
          /\ ev'.dropped \cap DOMAIN invite_cache'[ev'.g] = {}]_vars
C12_Witness ==
    /\ ev.op = "Resolve"
    /\ ev.ok
    /\ ev.dropped = {"b"}
    /\ DOMAIN invite_cache[ev.g] = {"a"}
    /\ invite_cache[ev.g] = live[ev.g]

\* C13: a refresh whose fetch failed leaves the stored snapshots as they were.
C13_FailedRefreshKeepsSnapshot ==
    [][ev'.op = "RefreshReturn" /\ ~ev'.ok => invite_cache' = invite_cache]_vars

\* C14: the stored snapshot of a guild is never replaced by the result of a
\* fetch that was issued before the fetch whose result is stored (ev.stale:
\* the step stored the result of such a fetch).
C14_WritesInFetchOrder ==
    ev.op \in {"Resolve", "RefreshReturn"} => ~ev.stale

\* C15: from the arrival of a join event to the diff of that join the stored
\* snapshot of the guild stays as it is, also while the join handler is in the
\* kick sweep that comes before its inviter detection.
C15_SnapshotHeldDuringSweep ==
    [][\A t \in TaskIds :
          tasks[t].kind = "join" /\ tasks[t].pc = "kick" =>
             invite_cache'[tasks[t].g] = invite_cache[tasks[t].g]]_vars

(***************************************************************************)
(* Error handling of the kick sweep (checked under SpecRaid).              *)
(***************************************************************************)
\* C16: when a kick of a raid action fails, the sweep goes on: if a member of
\* the cohort further on is in the member cache it is sent a kick, and when
\* none is left the sweep ends with every member of the cohort sent a kick
\* or passed over as gone, and with the guild's window cleared.
C16_FailedKickDoesNotAbort ==
    ev.op = "KickReturn" /\ ~ev.ok =>
        IF ev.fin
        THEN /\ join_log[ev.g] = <<>>
             /\ ev.kicked \cup ev.skipped = ev.cohort
        ELSE /\ ev.cmd = "KickMember"
             /\ tasks[ev.t].pc = "kick"
             /\ ev.target \in present[ev.g]
             /\ ev.target \in Range(tasks[ev.t].to_kick)
C16_Witness ==
    /\ ev.op = "KickReturn"
    /\ ~ev.ok
    /\ ~ev.fin
    /\ ev.cmd = "KickMember"
    /\ Cardinality(tasks[ev.t].kicked) = 2

(***************************************************************************)
(* Notifications (checked under SpecNotify).                               *)
(***************************************************************************)
\* the calls that go out about every flagged member of guild g, whatever
\* their outcomes: the direct messages and the lookup of the bot's owner
DirectMessages(g) ==
    {"DmMember", "FetchUser"} \cup (IF HasOwner(g) THEN {"DmGuildOwner"} ELSE {})

\* C17: whether a notification about a flagged member succeeds or fails, the
\* member's flag record stays, a broadcast goes on to its next channel or to
\* the direct messages, a direct message that failed is followed by the next
\* one, and when the notifications about the member end every one of them has
\* been attempted: the direct messages to the member and to the guild's owner,
\* the one to the bot's owner (its lookup at least, the message itself unless
\* that lookup failed) and, in the join handler, the broadcast.
C17_NotificationFailuresIndependent ==
    ev.op \in {"BroadcastReturn", "SleepReturn", "DmReturn", "FetchUserReturn"} =>
        /\ ev.about \in DOMAIN flagged_accounts[ev.g]
        /\ ev.op = "BroadcastReturn" /\ ~ev.ok => ev.cmd \in {"SendChannelMessage", "DmMember"}
        /\ ev.op = "SleepReturn" => ev.cmd \in {"SendChannelMessage", "DmMember"}
        /\ ev.op = "DmReturn" /\ ~ev.ok /\ ev.told = {} => ev.cmd \in {"DmGuildOwner", "FetchUser"}
        /\ ev.told # {} =>
              /\ DirectMessages(ev.g) \subseteq ev.told
              /\ "DmBotOwner" \in ev.told \/ (ev.op = "FetchUserReturn" /\ ~ev.ok)
              /\ ev.kind = "join" => "SendChannelMessage" \in ev.told
C17_Witness ==
    /\ ev.op = "DmReturn"
    /\ ev.kind = "join"
    /\ ~ev.ok
    /\ ev.cmd = "DmGuildOwner"
    /\ ev.about \in DOMAIN flagged_accounts[ev.g]
    /\ tasks[ev.t].told = {"SendChannelMessage", "DmMember", "DmGuildOwner"}

\* C18: when the ban handler has ended its notifications about a member that
\* its sweep flagged, a broadcast to the guild's text channels, a direct message
\* to the member and a direct message to an operator have been attempted.
C18_BanSweepFullFanOut ==
    ev.kind = "ban" /\ ev.told # {} =>
        /\ "SendChannelMessage" \in ev.told
        /\ "DmMember" \in ev.told
        /\ ev.told \cap {"DmGuildOwner", "DmBotOwner"} # {}

\* C19: a broadcast issues at most JOIN_WARNING_MAX_CHANNELS SendChannelMessage
\* commands (every text channel is writable, so the position of the channel a
\* broadcast is sending to is the number of commands it has issued).
C19_BroadcastBounded ==
    \A t \in TaskIds : tasks[t].pc = "bcast" => tasks[t].ch <= JOIN_WARNING_MAX_CHANNELS

(***************************************************************************)
(* Guild scoping (checked under SpecScope).                                *)
(***************************************************************************)
\* what the bot keeps for guild g
GuildState(g) == <<join_log[g], invite_cache[g], member_inviter[g], flagged_accounts[g],
                   banned_inviters[g]>>

\* C20: a step of a handler of one guild changes nothing of what the bot keeps
\* for another guild, and a flag record that a ban of X stores in guild g is
\* for a member whose attribution to X was recorded by a join in g.
C20_GuildScoped ==
    [][/\ \A g \in Guilds : ev'.g \in Guilds \ {g} => GuildState(g)' = GuildState(g)
       /\ ev'.kind = "ban" =>
             \A m \in DOMAIN flagged_accounts'[ev'.g] :
                (m \notin DOMAIN flagged_accounts[ev'.g]
                    \/ flagged_accounts'[ev'.g][m] # flagged_accounts[ev'.g][m]) =>
                   /\ m \in DOMAIN member_inviter'[ev'.g]
                   /\ member_inviter'[ev'.g][m] = ev'.who]_vars

(***************************************************************************)
(* Progress of the kick sweep (checked under SpecHang).                    *)
(***************************************************************************)
\* a join handler of guild g is in its kick sweep
SweepUnderWay(g) == \E t \in TaskIds : tasks[t].g = g /\ tasks[t].to_kick # <<>>

\* C21: also when one outbound call never returns, every handler that is in
\* a kick sweep leaves it in the end (its remaining kicks are attempted), and
\* the guild's join window is cleared in the end.
C21_UnresponsiveCallDoesNotStall ==
    /\ \A g \in Guilds : SweepUnderWay(g) ~> (join_log[g] = <<>>)
    /\ \A t \in TaskIds : (tasks[t].to_kick # <<>>) ~> (tasks[t].to_kick = <<>>)

(***************************************************************************)
(* Error handling of the handlers (checked under SpecErr).                 *)
(***************************************************************************)
\* C22: whatever fails (a fetch, a kick, a channel message, a direct message,
\* the lookup of the bot's owner, the iteration of the ban sweep), no
\* exception leaves on_member_join or on_member_ban: the step in which a call
\* raised is not one in which the handler was ended by the exception, after it
\* the handler has issued its next command or has returned, and a handler
\* ends only by returning.
C22_NoErrorEscapes ==
    ev.kind \in {"join", "ban"} =>
        /\ ~ev.escaped
        /\ ~ev.ok \/ ev.err => ev.done \/ ev.cmd # "none"
        /\ ev.t \in TaskIds /\ tasks[ev.t].kind = "idle" => ev.done
C22_Witness ==
    /\ ev.kind = "ban"
    /\ ev.err
    /\ ev.done
    /\ ~ev.escaped
    /\ tasks[ev.t].kind = "idle"

(***************************************************************************)
(* Order of the join log (checked under SpecRaid).                         *)
(***************************************************************************)
\* the sequence without its first k entries
DropFirst(q, k) == SubSeq(q, k + 1, Len(q))

\* C23: the timestamps of a guild's join log never decrease from front to
\* back, and a step changes the log only by clearing it or, at a join, by
\* putting the new record at the back and dropping entries from the front.
C23_JoinLogOldestFirst ==
    [][\A g \in Guilds :
          /\ \A i, j \in DOMAIN join_log'[g] : i < j => join_log'[g][i][1] <= join_log'[g][j][1]
          /\ \/ join_log'[g] = join_log[g]
             \/ join_log'[g] = <<>>
             \/ /\ ev'.op = "Join" /\ ev'.g = g
                /\ \E k \in 0..Len(join_log[g]) :
                      join_log'[g] = DropFirst(Append(join_log[g], <<now, ev'.who>>), k)]_vars
C23_Witness ==
    /\ ev.op = "Join"
    /\ Len(join_log[ev.g]) = 2
    /\ join_log[ev.g][1][1] < join_log[ev.g][2][1]
    /\ join_log[ev.g][2] = <<now, ev.who>>
    /\ Len(hist[ev.g]) = 3

C25_DecreaseIsNoIncrease ==
    [][\A t \in TaskIds :
          (tasks[t].kind = "join" /\ tasks[t].pc = "fetch" /\ ev'.op = "Resolve" /\ ev'.t = t) =>
             LET g == tasks[t].g
                 after == invite_cache'[g]
             IN /\ ev'.resolved # NoUser =>
                      \E c \in DOMAIN after :
                         /\ InviterOf(c) = ev'.resolved
                         /\ after[c] > DictGet(tasks[t].before, c, 0)
                /\ ~ev'.escaped
                /\ tasks[t].who \in DOMAIN member_inviter'[g]
                /\ member_inviter'[g][tasks[t].who] = ev'.resolved]_vars
C25_Witness ==
    /\ ev.op = "Resolve"
    /\ ev.decreased = {"b"}
    /\ ev.resolved = 11
    /\ invite_cache[ev.g]["b"] = 0
    /\ member_inviter[ev.g][ev.who] = 11

(***************************************************************************)
(* Joins recorded during a raid action (checked under SpecRaid).           *)
(***************************************************************************)
\* C26: a record leaves a guild's join log only when a join prunes it as
\* older than RAID_WINDOW_SECONDS, or when the log is cleared at the end of a
\* raid action after the record has been in a kick list; the clear at the end
\* of a kick sweep takes away no record that was appended after the last
\* trigger of the guild (fresh[g] counts those records: they are in no kick list).
C26_NoJoinLost ==
    [][\A g \in Guilds :
          /\ (ev'.op = "Join" /\ ev'.g = g /\ ~ev'.fin) =>
                \A i \in DOMAIN join_log[g] :
                   now - join_log[g][i][1] <= RAID_WINDOW_SECONDS =>
                      join_log[g][i] \in Range(join_log'[g])
          /\ (ev'.op = "KickReturn" /\ ev'.g = g /\ ev'.fin) => fresh[g] = 0
          /\ ev'.op \notin {"Join", "KickReturn"} => join_log'[g] = join_log[g]]_vars

(***************************************************************************)
(* One use, one attribution (checked under SpecAlt).                       *)
(***************************************************************************)
\* the members of guild g whose recorded inviter is x
AttributedTo(g, x) == {m \in DOMAIN member_inviter[g] : member_inviter[g][m] = x}

\* C27: the members of a guild who are attributed to the inviter of an invite
\* code are never more than the uses of that code (every inviter has one
\* invite and every member joins once, so each attribution needs a use of its own).
C27_OneUseOneAttribution ==
    \A g \in Guilds : \A c \in DOMAIN live[g] :
        Cardinality(AttributedTo(g, InviterOf(c))) <= live[g][c]

(***************************************************************************)
(* Attribution after a failed fetch (checked under SpecSerial).            *)
(***************************************************************************)
\* C28: the inviter that a detection returns is the inviter of a code whose
\* use count on the platform is above the count that the guild's last
\* successful fetch returned (0 for a code that fetch did not return).
C28_NoSpuriousAttribution ==
    [][ev'.op = "Resolve" /\ ev'.resolved # NoUser =>
          \E c \in DOMAIN live[ev'.g] :
             /\ InviterOf(c) = ev'.resolved
             /\ live[ev'.g][c] > DictGet(last_good[ev'.g], c, 0)]_vars

(***************************************************************************)
(* Size of the window between raid actions (checked under SpecRaid).       *)
(***************************************************************************)
\* C29: when no join handler of guild g is in its kick sweep, the join log
\* of g holds at most RAID_THRESHOLD_JOINS entries.
C29_WindowBoundedWhenCalm ==
    \A g \in Guilds :
        (\A t \in TaskIds : ~(tasks[t].g = g /\ tasks[t].pc = "kick")) =>
            Len(join_log[g]) <= RAID_THRESHOLD_JOINS
C29_Witness ==
    /\ ev.op = "Join"
    /\ ~ev.trig
    /\ \A t \in TaskIds : tasks[t].pc # "kick"
    /\ Len(join_log[ev.g]) = RAID_THRESHOLD_JOINS
    /\ Len(hist[ev.g]) > RAID_THRESHOLD_JOINS

(***************************************************************************)
(* No false flags (checked under SpecAlt).                                 *)
(***************************************************************************)
\* C30: every member that has a flag record in guild g is in
\* inviter_index[X] of some X in banned_inviters[g]; a member whose inviter is
\* unknown or was never banned in g has no flag record in g.
C30_NoFalseFlags ==
    \A g \in Guilds : \A m \in DOMAIN flagged_accounts[g] :
        \E x \in banned_inviters[g] : x \in DOMAIN inviter_index /\ m \in inviter_index[x]
C30_Witness ==
    /\ 11 \in banned_inviters[1]
    /\ Invited(inviter_index, 11) # {}
    /\ DOMAIN flagged_accounts[1] = Invited(inviter_index, 11)
    /\ Invited(inviter_index, 12) \ Invited(inviter_index, 11) # {}
    /\ \E m \in DOMAIN member_inviter[1] : member_inviter[1][m] = NoUser

====
